---- MODULE Spec2Model ----
(***************************************************************************)
(* claude-compte: the ingestion pipeline of src/claude_compte/parser.py    *)
(* and the /api/usage handler of src/claude_compte/server.py.              *)
(*                                                                         *)
(* Representation of Python values:                                        *)
(*   - a missing/None string is the string None, a missing/None timestamp  *)
(*     is NoTimestamp; timestamps are ISO strings in the logs, compared    *)
(*     lexicographically, and are modelled by positive integers with the   *)
(*     same order; the date of a timestamp (its part before "T") is the    *)
(*     integer DateOf(ts), and the date "unknown" is UnknownDate;          *)
(*   - money is counted in 1e-8 dollar units, so that every rate of        *)
(*     MODEL_PRICING is an integer;                                        *)
(*   - an insertion-ordered dict is a sequence of entries in insertion     *)
(*     order.                                                              *)
(***************************************************************************)
EXTENDS Integers, Sequences, FiniteSets, TLC

VARIABLES
    projectsDir,   \* whether ~/.claude/projects exists
    fs,            \* the session files: path -> file state
    historyFile,   \* ~/.claude/history.jsonl: sequence of [sessionId, display]
    cacheFile,     \* ~/.claude/compte-cache.json
    result,        \* outcome of the last parse_all_sessions call
    scan,          \* locals of the last parse_all_sessions call at its end
    unchanged,     \* no file or cache change since a scan that wrote the cache
    seen,          \* fingerprint of every file at the last scan
    file_lines,    \* input of parse_jsonl_file (pure-function specification)
    parsed,        \* its output
    queries,       \* output of extract_session_data on parsed
    pc,            \* position of the pure-function pipeline
    _cached_data,  \* server.py: the module-level snapshot, or None
    request        \* server.py: the /api/usage call in progress, or the last one

vars == <<projectsDir, fs, historyFile, cacheFile, result, scan, unchanged,
          seen, file_lines, parsed, queries, pc, _cached_data, request>>

None == "None"
NoTimestamp == 0
UnknownDate == 0
TicksPerDay == 10

DateOf(ts) == ts \div TicksPerDay

Range(s) == {s[i] : i \in 1..Len(s)}

\* TLC evaluates an operator's arguments when they are first read; a loop
\* reads its accumulator through Now at every iteration, so that the
\* accumulator is a value and not a pending computation.
Now(v) == v = v

RECURSIVE SumSeq(_)
SumSeq(s) == IF s = <<>> THEN 0 ELSE Head(s) + SumSeq(Tail(s))

RECURSIVE Concat(_)
Concat(ss) == IF ss = <<>> THEN <<>> ELSE Head(ss) \o Concat(Tail(ss))

(***************************************************************************)
(* Lines of a session file.  Every line is a record with the same fields;  *)
(* type "garbage" is a blank line or a line that is not JSON.              *)
(***************************************************************************)
BaseLine ==
    [type |-> "other", isSidechain |-> FALSE, hasMessage |-> TRUE,
     role |-> None, isMeta |-> FALSE, ctype |-> "none", cmd |-> FALSE,
     text |-> "", timestamp |-> NoTimestamp, id |-> None,
     hasUsage |-> FALSE, model |-> None,
     input_tokens |-> 0, cache_creation_input_tokens |-> 0,
     cache_read_input_tokens |-> 0, output_tokens |-> 0,
     tools |-> <<>>, thinking |-> FALSE]

GarbageLine == [BaseLine EXCEPT !.type = "garbage", !.hasMessage = FALSE]

UserLine(ts, text) ==
    [BaseLine EXCEPT !.type = "user", !.role = "user", !.ctype = "str",
                     !.text = text, !.timestamp = ts]

AssistantLine(id, ts, model, inTok, outTok) ==
    [BaseLine EXCEPT !.type = "assistant", !.role = "assistant",
                     !.id = id, !.timestamp = ts, !.hasUsage = TRUE,
                     !.model = model, !.input_tokens = inTok,
                     !.output_tokens = outTok]

(***************************************************************************)
(* get_pricing.  Substring tests on the model identifier are tabulated for *)
(* the identifiers that occur in the model.                                *)
(***************************************************************************)
MODEL_PRICING(tier) ==
    CASE tier = "opus-4.5" -> [input |-> 500, output |-> 2500, cacheWrite |-> 625, cacheRead |-> 50]
      [] tier = "opus-4.6" -> [input |-> 500, output |-> 2500, cacheWrite |-> 625, cacheRead |-> 50]
      [] tier = "opus-4.0" -> [input |-> 1500, output |-> 7500, cacheWrite |-> 1875, cacheRead |-> 150]
      [] tier = "opus-4.1" -> [input |-> 1500, output |-> 7500, cacheWrite |-> 1875, cacheRead |-> 150]
      [] tier = "sonnet" -> [input |-> 300, output |-> 1500, cacheWrite |-> 375, cacheRead |-> 30]
      [] tier = "haiku-4.5" -> [input |-> 100, output |-> 500, cacheWrite |-> 125, cacheRead |-> 10]
      [] tier = "haiku-3.5" -> [input |-> 80, output |-> 400, cacheWrite |-> 100, cacheRead |-> 8]

Substrings(m) ==
    CASE m = "claude-opus-4-6" -> {"opus", "4-6"}
      [] m = "claude-opus-4-1" -> {"opus", "4-1"}
      [] m = "claude-opus-4" -> {"opus"}
      [] m = "claude-sonnet-4-5" -> {"sonnet", "4-5"}
      [] m = "claude-haiku-4-5" -> {"haiku", "4-5"}
      [] m = "claude-3-5-haiku" -> {"haiku"}
      [] OTHER -> {}

In(sub, m) == sub \in Substrings(m)

get_pricing(model) ==
    IF model = None \/ model = "" THEN MODEL_PRICING("sonnet")
    ELSE IF In("opus", model) THEN
        IF In("4-6", model) \/ In("4.6", model) THEN MODEL_PRICING("opus-4.6")
        ELSE IF In("4-5", model) \/ In("4.5", model) THEN MODEL_PRICING("opus-4.5")
        ELSE IF In("4-1", model) \/ In("4.1", model) THEN MODEL_PRICING("opus-4.1")
        ELSE MODEL_PRICING("opus-4.0")
    ELSE IF In("sonnet", model) THEN MODEL_PRICING("sonnet")
    ELSE IF In("haiku", model) THEN
        IF In("4-5", model) \/ In("4.5", model) THEN MODEL_PRICING("haiku-4.5")
        ELSE MODEL_PRICING("haiku-3.5")
    ELSE MODEL_PRICING("sonnet")

(***************************************************************************)
(* parse_jsonl_file: message_map is the insertion-ordered dict             *)
(* id -> entry; assigning to a key that is present overwrites the value    *)
(* and keeps the key's position.                                           *)
(***************************************************************************)
DictHas(d, k) == \E i \in 1..Len(d) : d[i].key = k

DictIndex(d, k) == CHOOSE i \in 1..Len(d) : d[i].key = k

DictGet(d, k) == d[DictIndex(d, k)].value

\* a dict that moves a reassigned key to the end
DictSetMoveToEnd(d, k, v) ==
    Append(SelectSeq(d, LAMBDA e : e.key # k), [key |-> k, value |-> v])

DictSet(d, k, v) ==
    IF DictHas(d, k)
    THEN [d EXCEPT ![DictIndex(d, k)] = [key |-> k, value |-> v]]
    ELSE Append(d, [key |-> k, value |-> v])

DictValues(d) == [i \in 1..Len(d) |-> d[i].value]

DictKeys(d) == [i \in 1..Len(d) |-> d[i].key]

ParseLine(st, entry) ==
    IF entry.type = "garbage" THEN st
    ELSE IF entry.isSidechain THEN st
    ELSE IF entry.type \notin {"user", "assistant"} THEN st
    ELSE IF ~entry.hasMessage THEN st
    ELSE [message_map |->
             IF entry.type = "assistant" /\ entry.id # None /\ entry.id # ""
             THEN DictSet(st.message_map, entry.id, entry)
             ELSE st.message_map,
          user_messages |->
             IF entry.type = "user" /\ entry.role = "user"
             THEN Append(st.user_messages, entry)
             ELSE st.user_messages]

RECURSIVE ParseLoop(_, _)
ParseLoop(st, lines) ==
    IF lines = <<>> \/ ~Now(st) THEN st
    ELSE ParseLoop(ParseLine(st, Head(lines)), Tail(lines))

parse_jsonl_file(lines) ==
    LET st == ParseLoop([message_map |-> <<>>, user_messages |-> <<>>], lines)
    IN  [assistantEntries |-> DictValues(st.message_map),
         userMessages |-> st.user_messages]

(***************************************************************************)
(* extract_session_data                                                    *)
(***************************************************************************)
DisplayEligible(e) ==
    /\ ~e.isMeta
    /\ ~(e.ctype = "str" /\ e.cmd)

TimelineEntry(e) ==
    [text |-> IF e.ctype \in {"str", "list"} /\ e.text # "" THEN e.text ELSE None,
     timestamp |-> e.timestamp]

UserTimeline(user_messages) ==
    LET keep == SelectSeq(user_messages, DisplayEligible)
    IN  [i \in 1..Len(keep) |-> TimelineEntry(keep[i])]

\* The while loop of the pairing; user_idx counts from 0 as in the source.
RECURSIVE AdvanceCursor(_, _, _)
AdvanceCursor(user_timeline, user_idx, ts) ==
    IF /\ user_idx < Len(user_timeline) - 1
       /\ user_timeline[user_idx + 2].timestamp # NoTimestamp
       /\ ts # NoTimestamp
       /\ user_timeline[user_idx + 2].timestamp <= ts
    THEN AdvanceCursor(user_timeline, user_idx + 1, ts)
    ELSE user_idx

MakeQuery(entry, user_timeline, user_idx) ==
    LET hasUser == user_idx < Len(user_timeline)
        model == IF entry.model = None THEN "unknown" ELSE entry.model
        pricing == get_pricing(model)
    IN  [messageId |-> entry.id,
         userPrompt |-> IF hasUser THEN user_timeline[user_idx + 1].text ELSE None,
         userTimestamp |-> IF hasUser THEN user_timeline[user_idx + 1].timestamp
                           ELSE NoTimestamp,
         assistantTimestamp |-> entry.timestamp,
         model |-> model,
         inputTokens |-> entry.input_tokens,
         cacheCreationTokens |-> entry.cache_creation_input_tokens,
         cacheReadTokens |-> entry.cache_read_input_tokens,
         outputTokens |-> entry.output_tokens,
         totalTokens |-> entry.input_tokens + entry.cache_creation_input_tokens
                         + entry.cache_read_input_tokens + entry.output_tokens,
         cost |-> entry.input_tokens * pricing.input
                  + entry.cache_creation_input_tokens * pricing.cacheWrite
                  + entry.cache_read_input_tokens * pricing.cacheRead
                  + entry.output_tokens * pricing.output,
         tools |-> entry.tools,
         hasThinking |-> entry.thinking]

RECURSIVE ExtractLoop(_, _, _, _)
ExtractLoop(entries, user_timeline, user_idx, acc) ==
    IF entries = <<>> \/ ~Now(acc) THEN acc
    ELSE LET entry == Head(entries)
         IN  IF ~entry.hasUsage \/ entry.model = "<synthetic>"
             THEN ExtractLoop(Tail(entries), user_timeline, user_idx, acc)
             ELSE LET idx == AdvanceCursor(user_timeline, user_idx, entry.timestamp)
                  IN  ExtractLoop(Tail(entries), user_timeline, idx,
                                  Append(acc, MakeQuery(entry, user_timeline, idx)))

extract_session_data(assistant_entries, user_messages) ==
    ExtractLoop(assistant_entries, UserTimeline(user_messages), 0, <<>>)

(***************************************************************************)
(* sorted(..., key=...) is stable, also with reverse=True: entries with    *)
(* equal keys keep their order.  keys[i] is the key of s[i].               *)
(***************************************************************************)
Before(keys, i, j, reverse) ==
    \/ IF reverse THEN keys[i] > keys[j] ELSE keys[i] < keys[j]
    \/ keys[i] = keys[j] /\ i < j

\* rank[i] is the place of s[i] in the sorted sequence
Rank(keys, reverse) ==
    [i \in 1..Len(keys) |->
        1 + Cardinality({j \in 1..Len(keys) : Before(keys, j, i, reverse)})]

\* the entries of s, each at its place
Placed(s, rank) ==
    IF Now(rank)
    THEN [p \in 1..Len(s) |-> s[CHOOSE i \in 1..Len(s) : rank[i] = p]]
    ELSE s

Sorted(s, keys, reverse) ==
    IF Now(keys) THEN Placed(s, Rank(keys, reverse)) ELSE s

Field(s, f) == [i \in 1..Len(s) |-> s[i][f]]

\* Python slicing text[:n].  Texts are atomic strings; the two texts longer
\* than a slice bound are tabulated.
TextLen(t) ==
    CASE t = "long-250" -> 250
      [] t = "long-400" -> 400
      [] t = "long-400[:300]" -> 300
      [] OTHER -> 20

Slice(t, n) ==
    IF TextLen(t) <= n THEN t
    ELSE CASE t = "long-250" /\ n = 200 -> "long[:200]"
           [] t = "long-400" /\ n = 200 -> "long[:200]"
           [] t = "long-400" /\ n = 300 -> "long-400[:300]"
           [] t = "long-400[:300]" /\ n = 200 -> "long[:200]"

\* round(n / d) of Python 3: to nearest, ties to even.
Round(n, d) ==
    LET q == n \div d
        r == n % d
    IN  IF 2 * r < d THEN q
        ELSE IF 2 * r > d THEN q + 1
        ELSE IF q % 2 = 0 THEN q ELSE q + 1

\* A float quotient n / d, kept exact.
Ratio(n, d) == [num |-> n, den |-> d]

(***************************************************************************)
(* parse_all_sessions, the body of the loop over the files: the            *)
(* aggregation of one file's non-empty Query list.                         *)
(***************************************************************************)
RECURSIVE CountTools(_, _)
CountTools(tool_frequency, tools) ==
    IF tools = <<>> \/ ~Now(tool_frequency) THEN tool_frequency
    ELSE CountTools(
            DictSet(tool_frequency, Head(tools),
                    IF DictHas(tool_frequency, Head(tools))
                    THEN DictGet(tool_frequency, Head(tools)) + 1 ELSE 1),
            Tail(tools))

FirstTimestamp(qs) ==
    LET a == SelectSeq(qs, LAMBDA q : q.assistantTimestamp # NoTimestamp)
        u == SelectSeq(qs, LAMBDA q : q.userTimestamp # NoTimestamp)
    IN  IF a # <<>> THEN a[1].assistantTimestamp
        ELSE IF u # <<>> THEN u[1].userTimestamp
        ELSE NoTimestamp

RECURSIVE ModelCounts(_, _)
ModelCounts(model_counts, qs) ==
    IF qs = <<>> \/ ~Now(model_counts) THEN model_counts
    ELSE ModelCounts(
            DictSet(model_counts, Head(qs).model,
                    IF DictHas(model_counts, Head(qs).model)
                    THEN DictGet(model_counts, Head(qs).model) + 1 ELSE 1),
            Tail(qs))

\* the last key, in iteration order, of the largest value
MaxKeyLast(d) ==
    LET i == CHOOSE i \in 1..Len(d) :
                 /\ \A j \in 1..Len(d) : d[j].value <= d[i].value
                 /\ \A j \in (i + 1)..Len(d) : d[j].value < d[i].value
    IN  d[i].key

\* max(d, key=d.get): the first key, in iteration order, of the largest value.
MaxKey(d) ==
    LET i == CHOOSE i \in 1..Len(d) :
                 /\ \A j \in 1..Len(d) : d[j].value <= d[i].value
                 /\ \A j \in 1..(i - 1) : d[j].value < d[i].value
    IN  d[i].key

PrimaryModel(qs) ==
    LET model_counts == ModelCounts(<<>>, qs)
    IN  IF model_counts # <<>> THEN MaxKey(model_counts) ELSE "unknown"

Truthy(text) == text # None /\ text # ""

FirstPrompt(qs, session_id, session_first_prompt) ==
    LET h == IF DictHas(session_first_prompt, session_id)
             THEN DictGet(session_first_prompt, session_id) ELSE None
        p == SelectSeq(qs, LAMBDA q : Truthy(q.userPrompt))
    IN  IF Truthy(h) THEN h
        ELSE IF p # <<>> THEN p[1].userPrompt
        ELSE "(no prompt)"

PromptEntry(g, date, session_id, primary_model) ==
    [prompt |-> Slice(g.current_prompt, 300),
     inputTokens |-> g.p_input,
     outputTokens |-> g.p_output,
     cacheCreationTokens |-> g.p_cache_create,
     cacheReadTokens |-> g.p_cache_read,
     totalTokens |-> g.p_input + g.p_output + g.p_cache_create + g.p_cache_read,
     cost |-> g.p_cost,
     date |-> date,
     sessionId |-> session_id,
     model |-> primary_model]

\* flush_prompt without the test for nonzero tokens
flush_prompt_any(g, date, session_id, primary_model) ==
    IF Truthy(g.current_prompt)
    THEN [g EXCEPT !.all_prompts =
                       Append(@, PromptEntry(g, date, session_id, primary_model))]
    ELSE g

\* flush_prompt and the loop that calls it; g holds the nonlocal variables.
flush_prompt(g, date, session_id, primary_model) ==
    IF Truthy(g.current_prompt)
       /\ g.p_input + g.p_output + g.p_cache_create + g.p_cache_read > 0
    THEN [g EXCEPT !.all_prompts = Append(@,
            [prompt |-> Slice(g.current_prompt, 300),
             inputTokens |-> g.p_input,
             outputTokens |-> g.p_output,
             cacheCreationTokens |-> g.p_cache_create,
             cacheReadTokens |-> g.p_cache_read,
             totalTokens |-> g.p_input + g.p_output + g.p_cache_create + g.p_cache_read,
             cost |-> g.p_cost,
             date |-> date,
             sessionId |-> session_id,
             model |-> primary_model])]
    ELSE g

RECURSIVE PromptLoop(_, _, _, _, _)
PromptLoop(g, qs, date, session_id, primary_model) ==
    IF qs = <<>> \/ ~Now(g) THEN flush_prompt(g, date, session_id, primary_model)
    ELSE LET q == Head(qs)
             g1 == IF Truthy(q.userPrompt) /\ q.userPrompt # g.current_prompt
                   THEN [flush_prompt(g, date, session_id, primary_model) EXCEPT
                            !.current_prompt = q.userPrompt,
                            !.p_input = 0, !.p_output = 0,
                            !.p_cache_create = 0, !.p_cache_read = 0,
                            !.p_cost = 0]
                   ELSE g
             g2 == [g1 EXCEPT !.p_input = @ + q.inputTokens,
                              !.p_output = @ + q.outputTokens,
                              !.p_cache_create = @ + q.cacheCreationTokens,
                              !.p_cache_read = @ + q.cacheReadTokens,
                              !.p_cost = @ + q.cost]
         IN  PromptLoop(g2, Tail(qs), date, session_id, primary_model)

FilePrompts(all_prompts, qs, date, session_id, primary_model) ==
    PromptLoop([current_prompt |-> None, p_input |-> 0, p_output |-> 0,
                p_cache_create |-> 0, p_cache_read |-> 0, p_cost |-> 0,
                all_prompts |-> all_prompts],
               qs, date, session_id, primary_model).all_prompts

DailyRow(daily_map, date) ==
    IF DictHas(daily_map, date) THEN DictGet(daily_map, date)
    ELSE [date |-> date, inputTokens |-> 0, outputTokens |-> 0,
          cacheCreationTokens |-> 0, cacheReadTokens |-> 0,
          totalTokens |-> 0, cost |-> 0, sessions |-> 0, queries |-> 0]

\* daily aggregation without "if date != unknown"
DailyAddUnknownToo(daily_map, date, s) ==
    DictSet(daily_map, date,
        [DailyRow(daily_map, date) EXCEPT
            !.inputTokens = @ + s.inputTokens,
            !.outputTokens = @ + s.outputTokens,
            !.cacheCreationTokens = @ + s.cacheCreationTokens,
            !.cacheReadTokens = @ + s.cacheReadTokens,
            !.totalTokens = @ + s.totalTokens,
            !.cost = @ + s.cost,
            !.sessions = @ + 1,
            !.queries = @ + s.queryCount])

DailyAdd(daily_map, date, s) ==
    IF date = UnknownDate THEN daily_map
    ELSE LET d == IF DictHas(daily_map, date) THEN DictGet(daily_map, date)
                  ELSE [date |-> date, inputTokens |-> 0, outputTokens |-> 0,
                        cacheCreationTokens |-> 0, cacheReadTokens |-> 0,
                        totalTokens |-> 0, cost |-> 0, sessions |-> 0, queries |-> 0]
         IN  DictSet(daily_map, date,
                [d EXCEPT !.inputTokens = @ + s.inputTokens,
                          !.outputTokens = @ + s.outputTokens,
                          !.cacheCreationTokens = @ + s.cacheCreationTokens,
                          !.cacheReadTokens = @ + s.cacheReadTokens,
                          !.totalTokens = @ + s.totalTokens,
                          !.cost = @ + s.cost,
                          !.sessions = @ + 1,
                          !.queries = @ + s.queryCount])

RECURSIVE ModelAdd(_, _)
ModelAdd(model_map, qs) ==
    IF qs = <<>> \/ ~Now(model_map) THEN model_map
    ELSE LET q == Head(qs)
             qm == q.model
         IN  IF qm \in {"<synthetic>", "unknown"} THEN ModelAdd(model_map, Tail(qs))
             ELSE LET mm == IF DictHas(model_map, qm) THEN DictGet(model_map, qm)
                            ELSE [model |-> qm, inputTokens |-> 0, outputTokens |-> 0,
                                  cacheCreationTokens |-> 0, cacheReadTokens |-> 0,
                                  totalTokens |-> 0, cost |-> 0, queryCount |-> 0]
                  IN  ModelAdd(
                        DictSet(model_map, qm,
                          [mm EXCEPT !.inputTokens = @ + q.inputTokens,
                                     !.outputTokens = @ + q.outputTokens,
                                     !.cacheCreationTokens = @ + q.cacheCreationTokens,
                                     !.cacheReadTokens = @ + q.cacheReadTokens,
                                     !.totalTokens = @ + q.totalTokens,
                                     !.cost = @ + q.cost,
                                     !.queryCount = @ + 1]),
                        Tail(qs))

SessionOf(qs, session_id, project_dir, session_first_prompt) ==
    LET input_tokens == SumSeq(Field(qs, "inputTokens"))
        output_tokens == SumSeq(Field(qs, "outputTokens"))
        cache_creation_tokens == SumSeq(Field(qs, "cacheCreationTokens"))
        cache_read_tokens == SumSeq(Field(qs, "cacheReadTokens"))
        first_timestamp == FirstTimestamp(qs)
        total_tool_calls == Len(Concat(Field(qs, "tools")))
    IN  [sessionId |-> session_id,
         project |-> project_dir,
         date |-> IF first_timestamp # NoTimestamp THEN DateOf(first_timestamp)
                  ELSE UnknownDate,
         timestamp |-> first_timestamp,
         firstPrompt |-> Slice(FirstPrompt(qs, session_id, session_first_prompt), 200),
         model |-> PrimaryModel(qs),
         queryCount |-> Len(qs),
         inputTokens |-> input_tokens,
         outputTokens |-> output_tokens,
         cacheCreationTokens |-> cache_creation_tokens,
         cacheReadTokens |-> cache_read_tokens,
         totalTokens |-> input_tokens + cache_creation_tokens
                         + cache_read_tokens + output_tokens,
         cost |-> SumSeq(Field(qs, "cost")),
         thinkingTurns |-> Len(SelectSeq(qs, LAMBDA q : q.hasThinking)),
         totalToolCalls |-> total_tool_calls,
         toolDensity |-> Ratio(total_tool_calls, Len(qs))]

AggregateSession(acc, qs, s) ==
    [sessions |-> Append(acc.sessions, s),
     daily_map |-> DailyAdd(acc.daily_map, s.date, s),
     model_map |-> ModelAdd(acc.model_map, qs),
     all_prompts |-> FilePrompts(acc.all_prompts, qs, s.date, s.sessionId, s.model),
     tool_frequency |-> CountTools(acc.tool_frequency, Concat(Field(qs, "tools")))]

AggregateFile(acc, qs, session_id, project_dir, session_first_prompt) ==
    AggregateSession(acc, qs,
                     SessionOf(qs, session_id, project_dir, session_first_prompt))

(***************************************************************************)
(* parse_all_sessions after the loop: sorting, project rollup, totals.     *)
(***************************************************************************)
TOP_PROMPTS == 50

_empty_result ==
    [sessions |-> <<>>, dailyUsage |-> <<>>, modelBreakdown |-> <<>>,
     topPrompts |-> <<>>, projects |-> <<>>, toolStats |-> <<>>,
     totals |-> [totalTokens |-> 0, totalInput |-> 0, totalOutput |-> 0,
                 totalCacheCreation |-> 0, totalCacheRead |-> 0, totalCost |-> 0,
                 totalSessions |-> 0, totalQueries |-> 0, totalThinkingTurns |-> 0,
                 cacheHitRate |-> Ratio(0, 1), avgTokensPerSession |-> 0,
                 avgTokensPerQuery |-> 0]]

RECURSIVE ProjectAdd(_, _)
ProjectAdd(project_map, sessions) ==
    IF sessions = <<>> \/ ~Now(project_map) THEN project_map
    ELSE LET session == Head(sessions)
             proj == session.project
             p == IF DictHas(project_map, proj) THEN DictGet(project_map, proj)
                  ELSE [project |-> proj, inputTokens |-> 0, outputTokens |-> 0,
                        cacheCreationTokens |-> 0, cacheReadTokens |-> 0,
                        totalTokens |-> 0, cost |-> 0, sessionCount |-> 0,
                        queryCount |-> 0]
         IN  ProjectAdd(
                DictSet(project_map, proj,
                  [p EXCEPT !.inputTokens = @ + session.inputTokens,
                            !.outputTokens = @ + session.outputTokens,
                            !.cacheCreationTokens = @ + session.cacheCreationTokens,
                            !.cacheReadTokens = @ + session.cacheReadTokens,
                            !.totalTokens = @ + session.totalTokens,
                            !.cost = @ + session.cost,
                            !.sessionCount = @ + 1,
                            !.queryCount = @ + session.queryCount]),
                Tail(sessions))

SortSessions(sessions) == Sorted(sessions, Field(sessions, "totalTokens"), TRUE)

SortDaily(daily_map) ==
    Sorted(DictValues(daily_map), Field(DictValues(daily_map), "date"), FALSE)

\* seq[:n]
Prefix(seq, n) == SubSeq(seq, 1, IF Len(seq) < n THEN Len(seq) ELSE n)

\* cutting the list before it is sorted
TopPromptsUnsorted(all_prompts) == Prefix(all_prompts, TOP_PROMPTS)

TopPrompts(all_prompts) ==
    Prefix(Sorted(all_prompts, Field(all_prompts, "totalTokens"), TRUE), TOP_PROMPTS)

CacheHitRateOne(total_cache_read, total_cache_creation, total_input) ==
    IF total_cache_read + total_cache_creation + total_input > 0
    THEN Ratio(total_cache_read, total_cache_read + total_cache_creation + total_input)
    ELSE Ratio(1, 1)

CacheHitRate(total_cache_read, total_cache_creation, total_input) ==
    IF total_cache_read + total_cache_creation + total_input > 0
    THEN Ratio(total_cache_read, total_cache_read + total_cache_creation + total_input)
    ELSE Ratio(0, 1)

TotalsOf(sessions, total_input, total_output, total_cache_creation, total_cache_read, total_tokens, total_queries) ==
        [totalTokens |-> total_tokens,
         totalInput |-> total_input,
         totalOutput |-> total_output,
         totalCacheCreation |-> total_cache_creation,
         totalCacheRead |-> total_cache_read,
         totalCost |-> SumSeq(Field(sessions, "cost")),
         totalSessions |-> Len(sessions),
         totalQueries |-> total_queries,
         totalThinkingTurns |-> SumSeq(Field(sessions, "thinkingTurns")),
         cacheHitRate |-> CacheHitRate(total_cache_read, total_cache_creation, total_input),
         avgTokensPerSession |-> IF sessions # <<>>
                                 THEN Round(total_tokens, Len(sessions)) ELSE 0,
         avgTokensPerQuery |-> IF total_queries # 0
                               THEN Round(total_tokens, total_queries) ELSE 0]

Totals(sessions) ==
    TotalsOf(sessions,
             SumSeq(Field(sessions, "inputTokens")),
             SumSeq(Field(sessions, "outputTokens")),
             SumSeq(Field(sessions, "cacheCreationTokens")),
             SumSeq(Field(sessions, "cacheReadTokens")),
             SumSeq(Field(sessions, "inputTokens")) + SumSeq(Field(sessions, "outputTokens"))
                 + SumSeq(Field(sessions, "cacheCreationTokens"))
                 + SumSeq(Field(sessions, "cacheReadTokens")),
             SumSeq(Field(sessions, "queryCount")))

SortByTotal(rows) == Sorted(rows, Field(rows, "totalTokens"), TRUE)

ToolStats(tool_frequency) ==
    Sorted([i \in 1..Len(tool_frequency) |->
               [name |-> tool_frequency[i].key, count |-> tool_frequency[i].value]],
           Field(tool_frequency, "value"), TRUE)

SnapshotOf(acc, sessions) ==
    [sessions |-> sessions,
     dailyUsage |-> SortDaily(acc.daily_map),
     modelBreakdown |-> SortByTotal(DictValues(acc.model_map)),
     topPrompts |-> TopPrompts(acc.all_prompts),
     projects |-> SortByTotal(DictValues(ProjectAdd(<<>>, sessions))),
     toolStats |-> ToolStats(acc.tool_frequency),
     totals |-> Totals(sessions)]

Snapshot(acc) == SnapshotOf(acc, SortSessions(acc.sessions))

(***************************************************************************)
(* The file system.  A session file is projects/<project>/<stem>.jsonl;    *)
(* SessionFiles lists them in the order iterdir() yields them.  The        *)
(* content of a file is named by a descriptor, FileContent gives its       *)
(* lines, and st_size is their number.                                     *)
(***************************************************************************)
SessionFiles ==
    << [project |-> "projA", stem |-> "s1"],
       [project |-> "projA", stem |-> "s2"],
       [project |-> "projB", stem |-> "s3"] >>

FileIds == 1..Len(SessionFiles)

MaxMtime == 2
MaxTurns == 17

Sonnet == "claude-sonnet-4-5"
Opus == "claude-opus-4-6"
Haiku == "claude-3-5-haiku"

\* n turns, each a user prompt followed by one assistant response.
RECURSIVE Turns(_, _)
Turns(start, n) ==
    IF n = 0 THEN <<>>
    ELSE Turns(start, n - 1) \o
         << UserLine(start + 2 * n, IF n % 2 = 0 THEN "even turn" ELSE "odd turn"),
            AssistantLine(ToString(n), start + 2 * n + 1, Sonnet, ((n * 7) % 5) + 1, n % 3) >>

FileContent(c) ==
    CASE c.kind = "empty" -> <<>>
      [] c.kind = "useronly" ->
            << UserLine(10, "hello"), GarbageLine >>
      [] c.kind = "nousage" ->
            << UserLine(10, "hello"),
               [AssistantLine("m1", 11, Sonnet, 0, 0) EXCEPT !.hasUsage = FALSE] >>
      [] c.kind = "chat" ->
            << UserLine(10, "fix the bug"),
               AssistantLine("m1", 11, Sonnet, 3, 2),
               [AssistantLine("m2", 12, Opus, 4, 1) EXCEPT
                   !.cache_read_input_tokens = 5, !.tools = <<"Bash", "Read">>],
               UserLine(23, "add a test"),
               [AssistantLine("m3", 24, Opus, 2, 2) EXCEPT
                   !.cache_creation_input_tokens = 1, !.thinking = TRUE,
                   !.tools = <<"Bash">>] >>
      [] c.kind = "short" ->
            << UserLine(31, "long-400"),
               AssistantLine("m1", 32, Haiku, 1, 1),
               AssistantLine("m1", 33, Haiku, 2, 4),
               AssistantLine("m2", 34, Sonnet, 1, 0) >>
      [] c.kind = "undated" ->
            << [UserLine(NoTimestamp, "") EXCEPT !.ctype = "list"],
               AssistantLine("m1", NoTimestamp, None, 2, 1),
               AssistantLine("m2", NoTimestamp, Sonnet, 1, 1) >>
      [] c.kind = "mixed" ->
            << [UserLine(20, "slash") EXCEPT !.cmd = TRUE],
               [UserLine(20, "meta") EXCEPT !.isMeta = TRUE],
               AssistantLine("m1", 21, None, 6, 0),
               UserLine(22, "long-250"),
               AssistantLine("m2", 25, "<synthetic>", 9, 9),
               [AssistantLine("m3", 26, Haiku, 9, 9) EXCEPT !.isSidechain = TRUE],
               AssistantLine("m4", 27, Haiku, 0, 0),
               AssistantLine("m5", 28, Opus, 1, 1),
               AssistantLine("m6", 29, Haiku, 2, 0) >>
      [] c.kind = "toolresult" ->
            << [UserLine(38, "") EXCEPT !.ctype = "list"],
               AssistantLine("m0", 39, Sonnet, 1, 0),
               UserLine(40, "fix the bug"),
               AssistantLine("m1", 41, Sonnet, 3, 1),
               [UserLine(42, "") EXCEPT !.ctype = "list"],
               AssistantLine("m2", 43, Sonnet, 2, 2),
               UserLine(44, "fix the bug"),
               AssistantLine("m3", 45, Sonnet, 1, 1),
               UserLine(46, "thanks"),
               AssistantLine("m4", 47, Haiku, 0, 0),
               UserLine(48, "add a test"),
               AssistantLine("m5", 49, Opus, 4, 0),
               [UserLine(50, "") EXCEPT !.ctype = "list"],
               AssistantLine("m6", 51, Opus, 1, 1) >>
      [] c.kind = "turns" -> Turns(TicksPerDay * c.n, c.n)

Content(kind) == [kind |-> kind, n |-> 0]

Absent == [present |-> FALSE, mtime |-> 0, content |-> Content("empty"),
           statOK |-> TRUE, openOK |-> TRUE]

NewFile(content) ==
    [present |-> TRUE, mtime |-> 1, content |-> content,
     statOK |-> TRUE, openOK |-> TRUE]

StSize(f) == Len(FileContent(f.content))

(***************************************************************************)
(* _cache_key: the string path:mtime_ns:size determines its three parts,   *)
(* and is modelled by the triple; None (stat failed) is NoKey.             *)
(***************************************************************************)
NoKey == <<>>

_cache_key(files, i) ==
    IF files[i].statOK THEN <<i, files[i].mtime, StSize(files[i])>> ELSE NoKey

(***************************************************************************)
(* The cache file.  kind is what json.loads makes of it: "missing" (no     *)
(* file), "notjson" (not JSON), "scalar" (JSON null, number or boolean),   *)
(* "array" (a JSON list of non-fingerprints), "object" (a JSON object,     *)
(* map).                                                                   *)
(***************************************************************************)
EmptyMap == <<>>

CacheOf(kind, map) == [kind |-> kind, map |-> map]

_load_cache(file) ==
    IF file.kind \in {"missing", "notjson"} THEN CacheOf("object", EmptyMap)
    ELSE file

\* _save_cache: the write succeeds, fails before the file is touched, or
\* fails after the file was truncated.
_save_cache(file, cache, wr) ==
    CASE wr = "ok" -> CacheOf("object", cache)
      [] wr = "untouched" -> file
      [] wr = "partial" -> CacheOf("notjson", EmptyMap)

WriteOutcomes == {"ok", "untouched", "partial"}

(***************************************************************************)
(* history.jsonl -> session_first_prompt                                   *)
(***************************************************************************)
RECURSIVE SessionFirstPrompt(_, _)
SessionFirstPrompt(d, lines) ==
    IF lines = <<>> \/ ~Now(d) THEN d
    ELSE LET entry == Head(lines)
         IN  IF /\ Truthy(entry.sessionId) /\ Truthy(entry.display)
                /\ ~DictHas(d, entry.sessionId)
                /\ ~(entry.slash /\ TextLen(entry.display) < 30)
             THEN SessionFirstPrompt(DictSet(d, entry.sessionId, entry.display), Tail(lines))
             ELSE SessionFirstPrompt(d, Tail(lines))

(***************************************************************************)
(* parse_all_sessions: the loop over the files.  st holds the locals;      *)
(* st.lists records the value of queries of every file that reached        *)
(* "if not queries", st.parseCalls the files parse_jsonl_file was called   *)
(* on, st.hits the files served from the cache.                            *)
(***************************************************************************)
EmptyAcc ==
    [sessions |-> <<>>, daily_map |-> <<>>, model_map |-> <<>>,
     all_prompts |-> <<>>, tool_frequency |-> <<>>]

\* ck in cache: a TypeError when cache is no container.
LookupRaises(cache, ck) == ck # NoKey /\ cache.kind = "scalar"

CacheHit(cache, ck) ==
    ck # NoKey /\ cache.kind = "object" /\ ck \in DOMAIN cache.map

\* "if not queries: continue" lets a file through when its list is non-empty.
KeepAll(qs) == TRUE

KeepQueries(qs) == qs # <<>>

\* the end of the loop body, from "if not queries: continue"
Aggregate(st, i, qs, session_first_prompt) ==
    IF KeepQueries(qs)
    THEN [st EXCEPT !.acc = AggregateFile(@, qs, SessionFiles[i].stem,
                                SessionFiles[i].project, session_first_prompt),
                    !.lists = Append(@, [file |-> i, queries |-> qs])]
    ELSE [st EXCEPT !.lists = Append(@, [file |-> i, queries |-> qs])]

\* the else branch, after extract_session_data returned qs
Extracted(st, i, ck, qs, session_first_prompt) ==
    Aggregate(IF ck # NoKey THEN [st EXCEPT !.new_cache = (ck :> qs) @@ @] ELSE st,
              i, qs, session_first_prompt)

\* the else branch, after parse_jsonl_file returned p
Parsed(st, i, ck, p, session_first_prompt) ==
    IF p.assistantEntries = <<>> THEN st
    ELSE Extracted(st, i, ck,
                   extract_session_data(p.assistantEntries, p.userMessages),
                   session_first_prompt)

VisitKeyed(st, files, i, ck, cache, session_first_prompt) ==
    IF LookupRaises(cache, ck) THEN [st EXCEPT !.raised = TRUE]
    ELSE IF CacheHit(cache, ck)
    THEN Aggregate([st EXCEPT !.new_cache = (ck :> cache.map[ck]) @@ @,
                              !.hits = @ \cup {i}],
                   i, cache.map[ck], session_first_prompt)
    ELSE IF ~files[i].openOK THEN [st EXCEPT !.parseCalls = @ \cup {i}]
    ELSE Parsed([st EXCEPT !.parseCalls = @ \cup {i}], i, ck,
                parse_jsonl_file(FileContent(files[i].content)),
                session_first_prompt)

VisitFile(st, files, i, cache, session_first_prompt) ==
    IF st.raised \/ ~files[i].present THEN st
    ELSE VisitKeyed(st, files, i, _cache_key(files, i), cache, session_first_prompt)

RECURSIVE FileLoop(_, _, _, _, _)
FileLoop(st, files, i, cache, session_first_prompt) ==
    IF i > Len(SessionFiles) \/ ~Now(st) THEN st
    ELSE FileLoop(VisitFile(st, files, i, cache, session_first_prompt),
                  files, i + 1, cache, session_first_prompt)

NoScan ==
    [called |-> FALSE, force |-> FALSE, saved |-> FALSE,
     raised |-> FALSE, new_cache |-> EmptyMap, parseCalls |-> {}, hits |-> {},
     lists |-> <<>>, acc |-> EmptyAcc]

parse_all_sessions(force_refresh, dirExists, files, history, file) ==
    IF ~dirExists
    THEN [NoScan EXCEPT !.called = TRUE, !.force = force_refresh]
    ELSE LET cache == IF force_refresh THEN CacheOf("object", EmptyMap)
                      ELSE _load_cache(file)
             st == FileLoop([NoScan EXCEPT !.called = TRUE, !.force = force_refresh],
                            files, 1, cache, SessionFirstPrompt(<<>>, history))
         IN  [st EXCEPT !.saved = ~st.raised]

NoResult == [status |-> "none", data |-> _empty_result]

ResultOf(st) ==
    IF st.raised THEN [status |-> "raised", data |-> _empty_result]
    ELSE IF ~st.saved THEN [status |-> "ok", data |-> _empty_result]
    ELSE [status |-> "ok", data |-> Snapshot(st.acc)]

Fingerprints(files) ==
    [i \in FileIds |-> IF files[i].present THEN _cache_key(files, i) ELSE NoKey]

(***************************************************************************)
(* server.py.  A snapshot as the handler holds it: the dict returned by    *)
(* parse_all_sessions, with or without the key "optimizations".  NoData    *)
(* is None.                                                                *)
(***************************************************************************)
NoData == [set |-> FALSE, data |-> _empty_result, hasOptimizations |-> FALSE,
           optimizations |-> <<>>]

Data(snapshot) == [NoData EXCEPT !.set = TRUE, !.data = snapshot]

\* data["optimizations"] = tips
WithOptimizations(data, tips) ==
    [data EXCEPT !.hasOptimizations = TRUE, !.optimizations = tips]

(***************************************************************************)
(* optimizer.py: generate_optimizations, as the list of the ids of the     *)
(* tips.  Ratios are compared by cross-multiplication.                     *)
(***************************************************************************)
RECURSIVE RatSum(_)
RatSum(rs) ==
    IF rs = <<>> THEN Ratio(0, 1)
    ELSE LET t == RatSum(Tail(rs))
         IN  [num |-> Head(rs).num * t.den + t.num * Head(rs).den,
              den |-> Head(rs).den * t.den]

Tip(cond, id) == IF cond THEN <<id>> ELSE <<>>

Last7(daily_usage) == SubSeq(daily_usage, Len(daily_usage) - 6, Len(daily_usage))

generate_optimizations(data) ==
    LET totals == data.totals
        sessions == data.sessions
        rate == totals.cacheHitRate
        short_sessions == SelectSeq(sessions, LAMBDA x : x.queryCount <= 3)
        density == RatSum(Field(sessions, "toolDensity"))
        opus_tokens == SumSeq(Field(SelectSeq(data.modelBreakdown,
                                              LAMBDA m : In("opus", m.model)),
                                    "totalTokens"))
        total_input_all == totals.totalInput + totals.totalCacheCreation
                           + totals.totalCacheRead
        recent7 == Last7(data.dailyUsage)
        sum7 == SumSeq(Field(recent7, "totalTokens"))
    IN  IF totals.totalSessions = 0 THEN <<>>
        ELSE Tip(2 * rate.num < rate.den /\ totals.totalSessions > 3, "low-cache-hit")
          \o Tip(~(2 * rate.num < rate.den /\ totals.totalSessions > 3)
                   /\ 5 * rate.num >= 4 * rate.den /\ totals.totalSessions > 3,
                 "great-cache")
          \o Tip(2 * Len(short_sessions) > Len(sessions) /\ Len(sessions) > 5,
                 "many-short-sessions")
          \o Tip(density.num > 3 * Len(sessions) * density.den
                   /\ totals.totalQueries > 10,
                 "high-tool-density")
          \o Tip(totals.totalThinkingTurns > 0 /\ totals.totalQueries > 0
                   /\ 10 * totals.totalThinkingTurns > 3 * totals.totalQueries,
                 "heavy-thinking")
          \o Tip(2 * opus_tokens > totals.totalTokens /\ totals.totalTokens > 0,
                 "opus-heavy")
          \o Tip(Len(data.projects) > 1 /\ totals.totalTokens # 0
                   /\ 10 * data.projects[1].totalTokens > 7 * totals.totalTokens,
                 "project-concentration")
          \o Tip(totals.totalOutput > 0 /\ totals.totalInput > 0
                   /\ total_input_all > 20 * totals.totalOutput,
                 "high-input-ratio")
          \o Tip(Len(data.dailyUsage) > 7
                   /\ \E d \in Range(recent7) : 7 * d.totalTokens > 3 * sum7
                   /\ sum7 > 0,
                 "usage-spike")

Clients == {1, 2}

NoRequest ==
    [pc |-> "idle", refresh |-> FALSE, at_entry |-> NoData, scanned |-> FALSE,
     returned |-> NoResult, data |-> NoData, response |-> NoData]

(***************************************************************************)
(* Actions.  Scan is one call of parse_all_sessions; the others are the    *)
(* environment acting on the files and on the cache file between calls.    *)
(* The locals and the outcome of a call are observable until the           *)
(* environment moves.  scan.clean: the call is without force_refresh and   *)
(* follows a call whose cache write succeeded, with nothing changed in     *)
(* between; scan.after_force: it follows such a call with force_refresh.   *)
(***************************************************************************)
NoRun == [clean |-> FALSE, after_force |-> FALSE, before |-> NoResult, prev |-> [i \in FileIds |-> NoKey],
          keys |-> [i \in FileIds |-> NoKey], loaded |-> CacheOf("missing", EmptyMap),
          wr |-> "ok", st |-> NoScan]

Scan(force_refresh) ==
    \E st \in {parse_all_sessions(force_refresh, projectsDir, fs, historyFile, cacheFile)} :
    \E res \in {ResultOf(st)} :
        \E wr \in IF st.saved THEN WriteOutcomes ELSE {"untouched"} :
            /\ result' = res
            /\ cacheFile' = IF st.saved THEN _save_cache(cacheFile, st.new_cache, wr)
                            ELSE cacheFile
            /\ scan' = [clean |-> unchanged /\ ~force_refresh,
                        after_force |-> unchanged /\ scan.st.force,
                        before |-> result,
                        prev |-> seen,
                        keys |-> Fingerprints(fs),
                        loaded |-> cacheFile,
                        wr |-> wr,
                        st |-> st]
            /\ seen' = Fingerprints(fs)
            /\ unchanged' = (st.saved /\ wr = "ok")
            /\ UNCHANGED <<projectsDir, fs, historyFile, file_lines, parsed, queries, pc>>

EnvMoved ==
    /\ result' = NoResult
    /\ scan' = NoRun
    /\ unchanged' = FALSE
    /\ UNCHANGED <<projectsDir, historyFile, seen, file_lines, parsed, queries, pc,
                   _cached_data, request>>

\* touch, or any write that leaves a new modification time
Touch(i, m) ==
    /\ fs[i].present /\ m # fs[i].mtime
    /\ fs' = [fs EXCEPT ![i].mtime = m]
    /\ UNCHANGED cacheFile
    /\ EnvMoved

Remove(i) ==
    /\ fs[i].present
    /\ fs' = [fs EXCEPT ![i] = Absent]
    /\ UNCHANGED cacheFile
    /\ EnvMoved

\* permissions: stat and open start or stop failing
SetAccess(i, statOK, openOK) ==
    /\ fs[i].present
    /\ <<statOK, openOK>> # <<fs[i].statOK, fs[i].openOK>>
    /\ fs' = [fs EXCEPT ![i].statOK = statOK, ![i].openOK = openOK]
    /\ UNCHANGED cacheFile
    /\ EnvMoved

CorruptCache(kind) ==
    /\ cacheFile.kind # kind
    /\ cacheFile' = CacheOf(kind, EmptyMap)
    /\ UNCHANGED fs
    /\ EnvMoved

\* File 1 is the file the environment acts on; file 2 stands by, with or
\* without a stat that succeeds, and can only be removed; file 3 does not
\* exist.
SubjectKinds == {"useronly", "nousage", "chat"}
SubjectFiles == {1}
CorruptKinds == {"missing", "notjson", "scalar", "array"}

Bystanders ==
    {NewFile(Content("chat")), [NewFile(Content("chat")) EXCEPT !.statOK = FALSE]}

Init ==
    /\ projectsDir \in BOOLEAN
    /\ fs \in [FileIds -> {Absent} \cup {NewFile(Content(k)) : k \in SubjectKinds}
                              \cup Bystanders]
    /\ projectsDir = FALSE => \A i \in FileIds : ~fs[i].present
    /\ fs[1] \notin Bystanders \ {NewFile(Content("chat"))}
    /\ fs[2] \in {Absent} \cup Bystanders
    /\ fs[3] = Absent
    /\ historyFile = <<>>
    /\ cacheFile = CacheOf("missing", EmptyMap)
    /\ result = NoResult
    /\ scan = NoRun
    /\ unchanged = FALSE
    /\ seen = [i \in FileIds |-> NoKey]
    /\ file_lines = <<>>
    /\ parsed = parse_jsonl_file(<<>>)
    /\ queries = <<>>
    /\ pc = "idle"
    /\ _cached_data = NoData
    /\ request = [c \in Clients |-> NoRequest]

Next ==
    \/ \E force_refresh \in BOOLEAN :
           Scan(force_refresh) /\ UNCHANGED <<_cached_data, request>>
    \/ \E i \in SubjectFiles, m \in 1..MaxMtime : Touch(i, m)
    \/ \E i \in FileIds : Remove(i)
    \/ \E i \in SubjectFiles, statOK, openOK \in BOOLEAN : SetAccess(i, statOK, openOK)
    \/ \E kind \in CorruptKinds : CorruptCache(kind)

Spec == Init /\ [][Next]_vars

(***************************************************************************)
(* SpecAgg: scans of three session files, with and without a history      *)
(* file.  The files are three short sessions, or three sessions of         *)
(* MaxTurns - 1 or MaxTurns + 1 turns, which together yield about          *)
(* TOP_PROMPTS prompt entries, more or fewer.                              *)
(***************************************************************************)
SmallContents ==
    {Content(k) : k \in {"chat", "short", "undated", "mixed", "nousage", "toolresult"}}

TurnContents == {[kind |-> "turns", n |-> n] : n \in {MaxTurns - 1, MaxTurns + 1}}

HistoryLines ==
    << [sessionId |-> "s1", display |-> "/clear", slash |-> TRUE],
       [sessionId |-> "s1", display |-> "long-250", slash |-> FALSE],
       [sessionId |-> "s1", display |-> "later", slash |-> FALSE],
       [sessionId |-> "s2", display |-> "", slash |-> FALSE] >>

AggInit ==
    /\ projectsDir = TRUE
    /\ fs \in [FileIds -> {NewFile(c) : c \in SmallContents}]
              \cup [FileIds -> {NewFile(c) : c \in TurnContents}]
    /\ historyFile \in {<<>>, HistoryLines}
    /\ cacheFile = CacheOf("missing", EmptyMap)
    /\ result = NoResult
    /\ scan = NoRun
    /\ unchanged = FALSE
    /\ seen = [i \in FileIds |-> NoKey]
    /\ file_lines = <<>>
    /\ parsed = parse_jsonl_file(<<>>)
    /\ queries = <<>>
    /\ pc = "idle"
    /\ _cached_data = NoData
    /\ request = [c \in Clients |-> NoRequest]

AggNext ==
    \E force_refresh \in BOOLEAN :
        Scan(force_refresh) /\ UNCHANGED <<_cached_data, request>>

SpecAgg == AggInit /\ [][AggNext]_vars

(***************************************************************************)
(* SpecServer: /api/usage requests of two clients against one server       *)
(* process, while the environment changes the session file and the cache   *)
(* file.  usage is a coroutine on the single event loop that uvicorn.run   *)
(* starts; its body has no await, so the event loop switches to another    *)
(* request at none of its lines (AwaitPoints).  The handler is modelled    *)
(* line by line: Call (33), ScanStep (34), Optimize (35), Store (36),      *)
(* Return (37).                                                            *)
(***************************************************************************)
AwaitPoints == {}

Resting == {"idle", "done", "failed"}

\* the event loop can run the coroutine of client c
CanRun(c) == \A d \in Clients \ {c} : request[d].pc \in Resting \cup AwaitPoints

Call(c, refresh) ==
    /\ CanRun(c)
    /\ request[c].pc \in Resting
    /\ request' = [request EXCEPT ![c] =
                      [NoRequest EXCEPT !.pc = "called", !.refresh = refresh,
                                        !.at_entry = _cached_data]]
    /\ UNCHANGED <<projectsDir, fs, historyFile, cacheFile, result, scan, unchanged,
                   seen, file_lines, parsed, queries, pc, _cached_data>>

\* data = parse_all_sessions(force_refresh=refresh); an exception ends the
\* request
ScanStep(c) ==
    /\ CanRun(c)
    /\ request[c].pc = "called"
    /\ ~_cached_data.set \/ request[c].refresh
    /\ Scan(request[c].refresh)
    /\ request' = [request EXCEPT ![c].scanned = TRUE,
                                  ![c].returned = result',
                                  ![c].data = IF result'.status = "ok"
                                              THEN Data(result'.data) ELSE NoData,
                                  ![c].pc = IF result'.status = "ok"
                                            THEN "scanned" ELSE "failed"]
    /\ UNCHANGED _cached_data

Optimize(c) ==
    /\ CanRun(c)
    /\ request[c].pc = "scanned"
    /\ request' = [request EXCEPT
                      ![c].data = WithOptimizations(@, generate_optimizations(@.data)),
                      ![c].pc = "optimized"]
    /\ UNCHANGED <<projectsDir, fs, historyFile, cacheFile, result, scan, unchanged,
                   seen, file_lines, parsed, queries, pc, _cached_data>>

Store(c) ==
    /\ CanRun(c)
    /\ request[c].pc = "optimized"
    /\ _cached_data' = request[c].data
    /\ request' = [request EXCEPT ![c].pc = "stored"]
    /\ UNCHANGED <<projectsDir, fs, historyFile, cacheFile, result, scan, unchanged,
                   seen, file_lines, parsed, queries, pc>>

Return(c) ==
    /\ CanRun(c)
    /\ \/ request[c].pc = "stored"
       \/ request[c].pc = "called" /\ _cached_data.set /\ ~request[c].refresh
    /\ request' = [request EXCEPT ![c].response = _cached_data, ![c].pc = "done"]
    /\ UNCHANGED <<projectsDir, fs, historyFile, cacheFile, result, scan, unchanged,
                   seen, file_lines, parsed, queries, pc, _cached_data>>

ServedKinds == {"chat", "useronly", "toolresult"}

ServerInit ==
    /\ projectsDir = TRUE
    /\ fs \in {[i \in FileIds |-> IF i = 1 THEN NewFile(Content(k)) ELSE Absent] :
                   k \in ServedKinds}
    /\ historyFile = <<>>
    /\ cacheFile = CacheOf("missing", EmptyMap)
    /\ result = NoResult
    /\ scan = NoRun
    /\ unchanged = FALSE
    /\ seen = [i \in FileIds |-> NoKey]
    /\ file_lines = <<>>
    /\ parsed = parse_jsonl_file(<<>>)
    /\ queries = <<>>
    /\ pc = "idle"
    /\ _cached_data = NoData
    /\ request = [c \in Clients |-> NoRequest]

ServerNext ==
    \/ \E c \in Clients, refresh \in BOOLEAN : Call(c, refresh)
    \/ \E c \in Clients : ScanStep(c)
    \/ \E c \in Clients : Optimize(c)
    \/ \E c \in Clients : Store(c)
    \/ \E c \in Clients : Return(c)
    \/ Remove(1)
    \/ CorruptCache("scalar")

SpecServer == ServerInit /\ [][ServerNext]_vars

(***************************************************************************)
(* SpecParse: parse_jsonl_file followed by extract_session_data on every   *)
(* file of at most MaxLines lines over Alphabet.                           *)
(***************************************************************************)
MaxLines == 4

Alphabet ==
    { UserLine(10, "ten"),
      UserLine(20, "twenty"),
      [UserLine(15, "meta") EXCEPT !.isMeta = TRUE],
      AssistantLine("m1", 15, Sonnet, 1, 0),
      AssistantLine("m1", 20, Sonnet, 2, 0),
      AssistantLine("m2", 5, Opus, 3, 0),
      AssistantLine("m2", NoTimestamp, Opus, 4, 0),
      [AssistantLine("m1", 15, Sonnet, 0, 0) EXCEPT !.hasUsage = FALSE],
      [AssistantLine("m2", 20, Opus, 5, 0) EXCEPT !.isSidechain = TRUE] }

Files == UNION {[1..n -> Alphabet] : n \in 0..MaxLines}

ParseInit ==
    /\ projectsDir = FALSE
    /\ fs = [i \in FileIds |-> Absent]
    /\ historyFile = <<>>
    /\ cacheFile = CacheOf("missing", EmptyMap)
    /\ result = NoResult
    /\ scan = NoRun
    /\ unchanged = FALSE
    /\ seen = [i \in FileIds |-> NoKey]
    /\ file_lines \in Files
    /\ parsed = parse_jsonl_file(<<>>)
    /\ queries = <<>>
    /\ pc = "parse"
    /\ _cached_data = NoData
    /\ request = [c \in Clients |-> NoRequest]

Parse ==
    /\ pc = "parse"
    /\ parsed' = parse_jsonl_file(file_lines)
    /\ pc' = "extract"
    /\ UNCHANGED <<projectsDir, fs, historyFile, cacheFile, result, scan, unchanged,
                   seen, file_lines, queries, _cached_data, request>>

Extract ==
    /\ pc = "extract"
    /\ queries' = extract_session_data(parsed.assistantEntries, parsed.userMessages)
    /\ pc' = "done"
    /\ UNCHANGED <<projectsDir, fs, historyFile, cacheFile, result, scan, unchanged,
                   seen, file_lines, parsed, _cached_data, request>>

ParseNext == Parse \/ Extract

SpecParse == ParseInit /\ [][ParseNext]_vars

(***************************************************************************)
(* Properties of parse_jsonl_file and extract_session_data (SpecParse).    *)
(***************************************************************************)
\* a line that parse_jsonl_file stores under its message identity
Counted(line) ==
    /\ line.type = "assistant" /\ ~line.isSidechain /\ line.hasMessage
    /\ line.id # None /\ line.id # ""

Occurrences(id) == {i \in 1..Len(file_lines) : Counted(file_lines[i]) /\ file_lines[i].id = id}

Min(S) == CHOOSE x \in S : \A y \in S : x <= y
Max(S) == CHOOSE x \in S : \A y \in S : x >= y

DerivedFrom(q, line) ==
    /\ line.hasUsage /\ line.model # "<synthetic>"
    /\ q.assistantTimestamp = line.timestamp
    /\ q.model = line.model
    /\ q.inputTokens = line.input_tokens
    /\ q.outputTokens = line.output_tokens
    /\ q.totalTokens = line.input_tokens + line.output_tokens

\* C6: one Query at most per message identity, derived from the last
\* occurrence of the identity in the file, and the queries are ordered by
\* the first occurrence of their identities.
C6_DedupLastWinsFirstPosition ==
    pc = "done" =>
        /\ \A i, j \in 1..Len(queries) :
               i # j => queries[i].messageId # queries[j].messageId
        /\ \A i \in 1..Len(queries) :
               /\ Occurrences(queries[i].messageId) # {}
               /\ DerivedFrom(queries[i],
                              file_lines[Max(Occurrences(queries[i].messageId))])
        /\ \A i, j \in 1..Len(queries) :
               i < j => Min(Occurrences(queries[i].messageId))
                            < Min(Occurrences(queries[j].messageId))

\* m1 occurs, then m2, then m1 again with other content: two queries, m1 first
\* and taken from its second occurrence
C6_Witness ==
    /\ pc = "done"
    /\ Len(file_lines) = 3
    /\ file_lines[1].id = "m1" /\ file_lines[2].id = "m2" /\ file_lines[3].id = "m1"
    /\ file_lines[1].hasUsage /\ file_lines[3].hasUsage
    /\ file_lines[1].input_tokens # file_lines[3].input_tokens
    /\ Len(queries) = 2
    /\ queries[1].messageId = "m1"
    /\ queries[1].inputTokens = file_lines[3].input_tokens

\* the timeline extract_session_data pairs against
Eligible == UserTimeline(SelectSeq(file_lines,
                LAMBDA l : l.type = "user" /\ ~l.isSidechain /\ l.hasMessage
                           /\ l.role = "user"))

\* C5: a Query is paired with the most recent display-eligible user message
\* whose timestamp is not later than the assistant record's, and never with a
\* later one.
C5_PairsMostRecentPreceding ==
    pc = "done" =>
        \A k \in 1..Len(queries) :
            LET q == queries[k]
                preceding == {i \in 1..Len(Eligible) :
                                 /\ Eligible[i].timestamp # NoTimestamp
                                 /\ Eligible[i].timestamp <= q.assistantTimestamp}
            IN  q.assistantTimestamp # NoTimestamp =>
                    /\ q.userTimestamp # NoTimestamp =>
                           q.userTimestamp <= q.assistantTimestamp
                    /\ preceding # {} =>
                           q.userTimestamp = Max({Eligible[i].timestamp : i \in preceding})

(***************************************************************************)
(* Properties of parse_all_sessions.                                       *)
(***************************************************************************)
Completed == scan.st.called /\ result.status = "ok"

Snap == result.data

SumOf(rows, f) == SumSeq(Field(rows, f))

\* the Query lists the scan aggregated, one after the other
ScanQueries == Concat(Field(scan.st.lists, "queries"))

\* C1 as stated: the total equals the session sum, the daily sum and the
\* model sum.
C1_ThreeSumsAgree ==
    Completed =>
        /\ Snap.totals.totalTokens = SumOf(Snap.sessions, "totalTokens")
        /\ Snap.totals.totalTokens = SumOf(Snap.dailyUsage, "totalTokens")
        /\ Snap.totals.totalTokens = SumOf(Snap.modelBreakdown, "totalTokens")

Dated(s) == s.date # UnknownDate
HasModel(q) == q.model # "unknown"

\* C1 amended: the total equals the session sum; the daily rollups sum to the
\* tokens of the sessions that have a date, the model rollups to the tokens of
\* the queries that have a model; so the three sums agree when every session
\* has a date and every query a model.
C1_SumsOverDatedAndModelled ==
    Completed =>
        /\ Snap.totals.totalTokens = SumOf(Snap.sessions, "totalTokens")
        /\ SumOf(Snap.dailyUsage, "totalTokens")
               = SumOf(SelectSeq(Snap.sessions, Dated), "totalTokens")
        /\ SumOf(Snap.modelBreakdown, "totalTokens")
               = SumOf(SelectSeq(ScanQueries, HasModel), "totalTokens")
        /\ (/\ \A i \in 1..Len(Snap.sessions) : Dated(Snap.sessions[i])
            /\ \A i \in 1..Len(ScanQueries) : HasModel(ScanQueries[i]))
           => /\ Snap.totals.totalTokens = SumOf(Snap.dailyUsage, "totalTokens")
              /\ Snap.totals.totalTokens = SumOf(Snap.modelBreakdown, "totalTokens")

\* a scan with an undated session beside dated ones and with a query that has
\* no model: both rollups fall short of the total
C1_Witness ==
    /\ Completed
    /\ \E i \in 1..Len(Snap.sessions) : ~Dated(Snap.sessions[i])
    /\ \E i \in 1..Len(ScanQueries) : ~HasModel(ScanQueries[i])
    /\ 0 < SumOf(Snap.dailyUsage, "totalTokens")
    /\ SumOf(Snap.dailyUsage, "totalTokens") < Snap.totals.totalTokens
    /\ SumOf(Snap.modelBreakdown, "totalTokens") < Snap.totals.totalTokens

\* C2: a scan without force_refresh that follows a scan whose cache write
\* succeeded, with no change in between, calls parse_jsonl_file on no file and
\* returns the same snapshot.
C2_RescanParsesNothing ==
    (scan.st.called /\ scan.clean) =>
        /\ scan.st.parseCalls = {}
        /\ result = scan.before

Keyed == {i \in FileIds : fs[i].present /\ scan.keys[i] # NoKey}

\* C3: the mapping given to _save_cache holds exactly the fingerprints of the
\* files visited whose fingerprint could be computed.
C3_CacheIsExactlyTheVisited ==
    scan.st.saved => DOMAIN scan.st.new_cache = {scan.keys[i] : i \in Keyed}

\* C4: a file whose fingerprint changed since the previous scan is parsed
\* again, its result is stored under the new fingerprint, and the old
\* fingerprint is gone from the new cache.
C4_ChangedFileIsReparsed ==
    scan.st.saved =>
        \A i \in Keyed :
            (scan.prev[i] # NoKey /\ scan.prev[i] # scan.keys[i]) =>
                /\ i \in scan.st.parseCalls
                /\ scan.keys[i] \in DOMAIN scan.st.new_cache
                /\ scan.prev[i] \notin DOMAIN scan.st.new_cache

NonEmptyLists == SelectSeq(scan.st.lists, LAMBDA l : l.queries # <<>>)

\* C7: every session has queryCount >= 1; the sessions are exactly the files
\* whose Query list (parsed or cached) is not empty, and the totals count
\* those files and their queries only.
C7_NoEmptySession ==
    Completed =>
        /\ \A k \in 1..Len(Snap.sessions) : Snap.sessions[k].queryCount >= 1
        /\ {Snap.sessions[k].sessionId : k \in 1..Len(Snap.sessions)}
               = {SessionFiles[NonEmptyLists[k].file].stem : k \in 1..Len(NonEmptyLists)}
        /\ Snap.totals.totalSessions = Len(NonEmptyLists)
        /\ Snap.totals.totalQueries = Len(ScanQueries)
        /\ SumOf(Snap.projects, "sessionCount") = Len(NonEmptyLists)

\* a scan that took an empty Query list from the cache and emitted a session
\* for another file
C7_Witness ==
    /\ Completed
    /\ \E k \in 1..Len(scan.st.lists) :
           /\ scan.st.lists[k].queries = <<>>
           /\ scan.st.lists[k].file \in scan.st.hits
    /\ Len(Snap.sessions) = 1

NoSessionFile == ~projectsDir \/ \A i \in FileIds : ~fs[i].present

\* C9: a scan over an absent projects directory, or over one without session
\* files, returns the empty snapshot without error.
C9_EmptyInput ==
    (scan.st.called /\ NoSessionFile) =>
        /\ result.status = "ok"
        /\ Snap.totals.totalSessions = 0
        /\ Snap.totals.totalTokens = 0
        /\ Snap.totals.cacheHitRate.num = 0
        /\ Snap.sessions = <<>> /\ Snap.dailyUsage = <<>>
        /\ Snap.modelBreakdown = <<>> /\ Snap.topPrompts = <<>>
        /\ Snap.projects = <<>> /\ Snap.toolStats = <<>>

\* the projects directory exists, holds no session file, and the cache file is
\* a JSON scalar
C9_Witness ==
    /\ scan.st.called
    /\ projectsDir /\ NoSessionFile
    /\ scan.loaded.kind = "scalar"
    /\ scan.st.saved

\* C10: whatever the cache file holds, the scan returns without error, and
\* with a cache file that is no fingerprint mapping it returns what a scan
\* with an empty cache returns.
C10_CacheNeverFailsTheScan ==
    scan.st.called =>
        /\ result.status = "ok"
        /\ scan.loaded.kind # "object" =>
               result = ResultOf(parse_all_sessions(TRUE, projectsDir, fs, historyFile,
                                                    cacheFile))

AllPrompts == scan.st.acc.all_prompts

NonIncreasing(rows) ==
    \A i \in 1..(Len(rows) - 1) : rows[i].totalTokens >= rows[i + 1].totalTokens

\* the number of rows with more than t tokens
Above(rows, t) == Cardinality({i \in 1..Len(rows) : rows[i].totalTokens > t})

Copies(rows, r) == Cardinality({i \in 1..Len(rows) : rows[i] = r})

\* C8: sessions are non-increasing by totalTokens, daily rollups strictly
\* increasing by date, and the prompt rollups are at most 50, non-increasing
\* by totalTokens, and the 50 largest of the prompt entries the scan collected.
C8_SortingContracts ==
    Completed =>
        /\ NonIncreasing(Snap.sessions)
        /\ \A i \in 1..(Len(Snap.dailyUsage) - 1) :
               Snap.dailyUsage[i].date < Snap.dailyUsage[i + 1].date
        /\ Len(Snap.topPrompts) <= TOP_PROMPTS
        /\ NonIncreasing(Snap.topPrompts)
        /\ Len(Snap.topPrompts) = Min({TOP_PROMPTS, Len(AllPrompts)})
        /\ \A r \in Range(Snap.topPrompts) :
               Copies(Snap.topPrompts, r) <= Copies(AllPrompts, r)
        /\ \A r \in Range(AllPrompts) :
               Above(Snap.topPrompts, r.totalTokens)
                   = Min({TOP_PROMPTS, Above(AllPrompts, r.totalTokens)})

\* a scan that collected more than 50 prompt entries, the first of which is
\* not among the largest, over several sessions and several days
C8_Witness ==
    /\ Completed
    /\ Len(AllPrompts) > TOP_PROMPTS
    /\ Len(Snap.topPrompts) = TOP_PROMPTS
    /\ \E i \in 1..Len(AllPrompts) : AllPrompts[i] \notin Range(Snap.topPrompts)
    /\ AllPrompts[1].totalTokens < Snap.topPrompts[1].totalTokens
    /\ Len(Snap.sessions) >= 2
    /\ Snap.sessions[1].totalTokens > Snap.sessions[Len(Snap.sessions)].totalTokens
    /\ Len(Snap.dailyUsage) >= 2

\* the files of the scan whose stat failed
Unkeyed == {i \in FileIds : fs[i].present /\ scan.keys[i] = NoKey}

CachedFiles(cache) == {ck[1] : ck \in DOMAIN cache}

\* C11: in every scan, a file whose stat fails is not served from the cache,
\* is parsed if it can be opened, and has no entry in the cache the scan
\* builds.
C11_UnkeyedFileParsedNeverCached ==
    scan.st.called /\ projectsDir =>
        \A i \in Unkeyed :
            /\ i \notin scan.st.hits
            /\ i \notin CachedFiles(scan.st.new_cache)
            /\ fs[i].openOK => i \in scan.st.parseCalls

\* The same statement over the scans that return: it holds, so the files
\* whose stat fails are mishandled only by a scan that the cache lookup of
\* another file ends.
UnkeyedOnCompletedScans == Completed => C11_UnkeyedFileParsedNeverCached

Present == {i \in FileIds : fs[i].present}

\* a scan with force_refresh reads no entry of the persisted cache, parses
\* every file it visits, and returns and rewrites the cache whatever the
\* cache file held
ForcedScanReadsNoCache ==
    (scan.st.called /\ scan.st.force /\ projectsDir) =>
        /\ scan.st.hits = {}
        /\ scan.st.parseCalls = Present
        /\ scan.st.saved
        /\ result.status = "ok"
        /\ result = ResultOf(parse_all_sessions(TRUE, projectsDir, fs, historyFile,
                                                CacheOf("missing", EmptyMap)))

\* C13: a scan with force_refresh reuses no cache entry and parses every
\* file, and it rewrites the cache so that the following scan without
\* force_refresh, over unchanged files, takes every file with a fingerprint
\* from the cache.
C13_ForceBypassesAndRewrites ==
    /\ ForcedScanReadsNoCache
    /\ (scan.st.called /\ scan.clean /\ scan.after_force) =>
           \A i \in Keyed : i \in scan.st.hits /\ i \notin scan.st.parseCalls

\* the Query list the scan used for the session, parsed or cached
ListOf(session) ==
    LET k == CHOOSE k \in 1..Len(scan.st.lists) :
                 SessionFiles[scan.st.lists[k].file].stem = session.sessionId
    IN  scan.st.lists[k]

Models(qs) == {qs[k].model : k \in 1..Len(qs)}
Uses(qs, m) == Cardinality({k \in 1..Len(qs) : qs[k].model = m})
FirstUse(qs, m) == Min({k \in 1..Len(qs) : qs[k].model = m})

\* m is the most frequent model of qs and, among the most frequent, the one
\* that occurs first
MostUsedFirst(qs, m) ==
    /\ m \in Models(qs)
    /\ \A n \in Models(qs) :
           /\ Uses(qs, n) <= Uses(qs, m)
           /\ (n # m /\ Uses(qs, n) = Uses(qs, m)) => FirstUse(qs, m) < FirstUse(qs, n)

FreshQueries(i) ==
    LET p == parse_jsonl_file(FileContent(fs[i].content))
    IN  extract_session_data(p.assistantEntries, p.userMessages)

\* C15: the primary model of a session is the most frequent model of its
\* queries, the first-occurring one among several most frequent; the list
\* taken from the cache is the list a fresh parse yields, so the primary
\* model is the same either way.
C15_PrimaryModelFirstMax ==
    Completed =>
        \A s \in Range(Snap.sessions) :
            /\ MostUsedFirst(ListOf(s).queries, s.model)
            /\ ListOf(s).queries = FreshQueries(ListOf(s).file)

\* a session served from the cache in which two models are used equally
\* often
C15_Witness ==
    /\ Completed
    /\ \E s \in Range(Snap.sessions) :
           /\ ListOf(s).file \in scan.st.hits
           /\ \E n \in Models(ListOf(s).queries) :
                  /\ n # s.model
                  /\ Uses(ListOf(s).queries, n) = Uses(ListOf(s).queries, s.model)

\* the prompt entries of a session, in the order they were collected
EntriesOf(session_id) == SelectSeq(AllPrompts, LAMBDA e : e.sessionId = session_id)

Prompted(q) == Truthy(q.userPrompt)

\* C14 as stated: the prompt entries of a file account for the tokens of the
\* queries of the file that have a non-null prompt, and for no other query.
C14_EntriesCoverPromptedQueriesOnly ==
    Completed =>
        \A l \in Range(scan.st.lists) :
            SumOf(EntriesOf(SessionFiles[l.file].stem), "totalTokens")
                = SumOf(SelectSeq(l.queries, Prompted), "totalTokens")

\* the prompt of the last query up to k that has one
RECURSIVE CurrentPrompt(_, _)
CurrentPrompt(qs, k) ==
    IF k = 0 THEN None
    ELSE IF Prompted(qs[k]) THEN qs[k].userPrompt
    ELSE CurrentPrompt(qs, k - 1)

\* a run starts at a query whose prompt is non-null and is not the prompt of
\* the run before it; it reaches up to the next start
RunStarts(qs) ==
    {k \in 1..Len(qs) : Prompted(qs[k]) /\ qs[k].userPrompt # CurrentPrompt(qs, k - 1)}

RunEnd(qs, k) == Min({j - 1 : j \in {j \in RunStarts(qs) : j > k}} \cup {Len(qs)})

Run(qs, k) == SubSeq(qs, k, RunEnd(qs, k))

\* the starts of the runs with nonzero tokens, and the n-th of them
Flushed(qs) == {k \in RunStarts(qs) : SumOf(Run(qs, k), "totalTokens") > 0}

Nth(S, n) == CHOOSE k \in S : Cardinality({j \in S : j < k}) = n - 1

\* C14 amended: a run starts at a query whose non-null prompt differs from the
\* current one and takes in the queries that follow it with the same prompt
\* or with no prompt; each run with nonzero tokens yields one entry, in
\* order, that sums over all queries of the run, the last run included; the
\* queries before the first prompt are in no entry.
C14_EntriesAreRunsWithUnpromptedQueries ==
    Completed =>
        \A l \in Range(scan.st.lists) :
            LET qs == l.queries
                entries == EntriesOf(SessionFiles[l.file].stem)
            IN  /\ Len(entries) = Cardinality(Flushed(qs))
                /\ \A n \in 1..Len(entries) :
                       LET run == Run(qs, Nth(Flushed(qs), n))
                       IN  /\ entries[n].prompt = Slice(run[1].userPrompt, 300)
                           /\ entries[n].inputTokens = SumOf(run, "inputTokens")
                           /\ entries[n].outputTokens = SumOf(run, "outputTokens")
                           /\ entries[n].cacheCreationTokens
                                  = SumOf(run, "cacheCreationTokens")
                           /\ entries[n].cacheReadTokens = SumOf(run, "cacheReadTokens")
                           /\ entries[n].totalTokens = SumOf(run, "totalTokens")
                           /\ entries[n].cost = SumOf(run, "cost")
                /\ SumOf(entries, "totalTokens")
                       = IF RunStarts(qs) = {} THEN 0
                         ELSE SumOf(SubSeq(qs, Min(RunStarts(qs)), Len(qs)), "totalTokens")

\* a file with a query without prompt before the first run, one inside a run,
\* one at the end of the last run, and a run without tokens
C14_Witness ==
    /\ Completed
    /\ \E l \in Range(scan.st.lists) :
           /\ RunStarts(l.queries) # {}
           /\ ~Prompted(l.queries[1]) /\ l.queries[1].totalTokens > 0
           /\ ~Prompted(l.queries[Len(l.queries)])
           /\ \E k \in RunStarts(l.queries) :
                  \E j \in (k + 1)..(RunEnd(l.queries, k) - 1) :
                      ~Prompted(l.queries[j]) /\ l.queries[j].totalTokens > 0
           /\ Flushed(l.queries) # RunStarts(l.queries)
           /\ Len(EntriesOf(SessionFiles[l.file].stem)) = Cardinality(Flushed(l.queries))

(***************************************************************************)
(* Properties of the /api/usage handler.                                   *)
(***************************************************************************)
\* a snapshot that is one scan's result together with its optimizations
Complete(d) ==
    /\ d.set
    /\ d.hasOptimizations
    /\ d.optimizations = generate_optimizations(d.data)

\* what holds of a request that got a snapshot back
Served(r) ==
    /\ Complete(r.response)
    /\ r.scanned => r.returned.status = "ok" /\ r.response.data = r.returned.data
    /\ (r.at_entry.set /\ ~r.refresh) => ~r.scanned /\ r.response = r.at_entry

\* _cached_data is None or complete, and every request that got a snapshot
\* back got a complete one: its own scan's, or without refresh the one that
\* existed when it was called, and then without a scan
SnapshotsAreComplete ==
    /\ _cached_data.set => Complete(_cached_data)
    /\ \A c \in Clients : request[c].pc = "done" => Served(request[c])

\* C12: every response to /api/usage is a complete snapshot, never one
\* without optimizations nor a mix of two scans, and a request without
\* refresh made when a snapshot exists returns that snapshot without a scan.
C12_EveryResponseIsComplete ==
    /\ _cached_data.set => Complete(_cached_data)
    /\ \A c \in Clients :
           request[c].pc \in {"done", "failed"} =>
               request[c].pc = "done" /\ Served(request[c])

====
